---- MODULE Spec2Model ----
(***************************************************************************)
(* Model of the audio output stream of node-pw-client                      *)
(* (src/src/audio-output-stream.cpp): the chunk queue filled by write(),   *)
(* drained by the real-time process callback (onProcess -> fillBuffer),    *)
(* the two backpressure waiters (isReady / isFinished), the format         *)
(* confirmation handler and the asynchronous connect / destroy workers.    *)
(*                                                                         *)
(* Each handler is one atomic action.  A chunk is [id, size, frameSize],   *)
(* id the number of the write call that queued it; its j-th byte (0-based) *)
(* is modelled by its identity <<id, j>>, and a zero-filled byte by        *)
(* <<0, 0>>.                                                               *)
(***************************************************************************)
EXTENDS Integers, Sequences, FiniteSets, TLC

\* ------------------------------------------------------------------ bounds
MaxWrites == 2
MaxDrains == 2
MaxDestroys == 2
MaxFormatChanges == 1
MaxTeardownWrites == 1
MaxTeardownDrains == 1
MaxFormatWrites == 2
MaxFormatDrains == 1
MaxGeometryChanges == 2
MaxPriorWrites == 2

\* ------------------------------------------------------- program constants
frameBufferSize == 2048
DEFAULT_RATE == 48000
DEFAULT_CHANNELS == 2

NULL == 0

\* frame counts of the aligned writes the producer is modelled to issue, and
\* the buffer capacities (spaData.maxsize, bytes) the transport hands out
WriteFrames == {1, frameBufferSize}
MaxSizes == {8, 32}
RequestedFrames == {0, 1, 3}
ConfirmedFormats == {"F64", "S16", "U8"}
ConfirmedChannels == {1, 2}
ConfirmedRates == {DEFAULT_RATE}
\* one encoding for every case label of the bytes-per-sample switch, and two
\* that fall to its default
TableFormats == {"F64", "F32", "S32", "U32", "S24_32", "S16", "U16", "U8",
                 "S24"}
GeometryRates == {DEFAULT_RATE, 2 * DEFAULT_RATE}

VARIABLES
    format, bytesPerSample, rate, channels,   \* frame geometry
    stream,                 \* "unconnected" | "negotiating" | "active" | "NULL"
    queuedFrameCount,       \* uint, held as its 32-bit pattern (see UintLess)
    buffers,                \* std::queue<js_buffer>: Seq of [id, size]
    currentBufferOffset,
    readyDeferral, finishedDeferral,   \* NULL or index into promises
    readySignal, finishedSignal,       \* NULL or index into tsfns
    promises,               \* Seq of [kind, state, value]: the Deferred objects
    tsfns,                  \* Seq of [kind, state, queue]: ThreadSafeFunctions
    connectWork,            \* "none" | "queued" | "executed" | "done"
    destroyWork,            \* Seq of "queued" | "executed" | "resolved" | "threw"
    streamDestroys,         \* number of pw_stream_destroy calls
    callbackReleases,       \* times the five notification channels were released
    propsRefs,              \* reference count of props
    crashed,                \* the process hit a null / freed-handle dereference
    out,                    \* what the last step returned, wrote or signalled
    inflight,               \* locals of a write and a drain running step by step
    formatChangeCallback,   \* Seq of the notification calls queued for the
                            \* event loop, each with the geometry applied by the
                            \* event that queued it (history only)
    nWrites, nDrains, nFormatChanges

vars == <<format, bytesPerSample, rate, channels, stream, queuedFrameCount,
          buffers, currentBufferOffset, readyDeferral, finishedDeferral,
          readySignal, finishedSignal, promises, tsfns, connectWork,
          destroyWork, streamDestroys, callbackReleases, propsRefs, crashed,
          out, inflight, formatChangeCallback, nWrites, nDrains,
          nFormatChanges>>

geometry == <<format, bytesPerSample, rate, channels>>
queue == <<queuedFrameCount, buffers, currentBufferOffset>>
waiters == <<readyDeferral, finishedDeferral, readySignal, finishedSignal,
             promises, tsfns>>
teardown == <<connectWork, destroyWork, streamDestroys, callbackReleases,
              propsRefs>>
counters == <<nWrites, nDrains, nFormatChanges>>

\* ----------------------------------------------------------------- helpers
Min(a, b) == IF a < b THEN a ELSE b

\* 32-bit unsigned arithmetic.  A uint is held as the two's-complement reading
\* of its bit pattern, so a value of 2^31 or more (a counter that wrapped below
\* zero) is a negative number here.
MaxInt32 == 2147483647
MinInt32 == -MaxInt32 - 1

UintSub(a, b) ==
    IF b >= 0 /\ a < MinInt32 + b THEN (a - MinInt32) + (MaxInt32 - b) + 1
    ELSE IF b < 0 /\ a > MaxInt32 + b THEN (a - MaxInt32) + (MinInt32 - b) - 1
    ELSE a - b

\* the addition stopping at the capacity of the queue
UintAdd_Capped(a, b) ==
    IF a + b > frameBufferSize THEN frameBufferSize ELSE a + b

UintAdd(a, b) ==
    IF b >= 0 /\ a > MaxInt32 - b THEN (a - MaxInt32) + (MinInt32 + b) - 1
    ELSE IF b < 0 /\ a < MinInt32 - b THEN (a - MinInt32) + (MaxInt32 + b) + 1
    ELSE a + b

\* a < b on unsigned operands
UintLess(a, b) == IF (a < 0) = (b < 0) THEN a < b ELSE b < 0

\* the frame size with the channel count left out
getBytesPerFrame_SampleOnly == bytesPerSample

getBytesPerFrame == bytesPerSample * channels

\* the table with the 24-in-32-bit encoding counted as three bytes
BytesPerSampleOf_Packed24(fmt) ==
    CASE fmt = "F64" -> 8
      [] fmt = "F32" -> 4
      [] fmt \in {"S32", "U32"} -> 4
      [] fmt = "S24_32" -> 3
      [] fmt \in {"S16", "U16"} -> 2
      [] OTHER -> 4

\* bytes-per-sample table of onFormatChange
BytesPerSampleOf(fmt) ==
    CASE fmt = "F64" -> 8
      [] fmt = "F32" -> 4
      [] fmt \in {"S32", "U32", "S24_32"} -> 4
      [] fmt \in {"S16", "U16"} -> 2
      [] OTHER -> 4

\* availableBytes with the frame count returned where bytes are due
availableBytes_Frames ==
    IF queuedFrameCount >= 0 /\ queuedFrameCount < frameBufferSize
    THEN frameBufferSize - queuedFrameCount
    ELSE 0

\* (long)frameBufferSize - queuedFrameCount, times getBytesPerFrame(): the
\* uint operand is widened to long, so a wrapped counter gives a negative
\* product.  Only the sign and the positive values are needed: 0 stands for
\* every non-positive result.
availableBytes ==
    IF queuedFrameCount >= 0 /\ queuedFrameCount < frameBufferSize
    THEN (frameBufferSize - queuedFrameCount) * getBytesPerFrame
    ELSE 0

\* bytes [off, off + n) of a chunk
ChunkBytes(chunk, off, n) == [i \in 1..n |-> <<chunk.id, off + i - 1>>]
Zeros(n) == [i \in 1..n |-> <<0, 0>>]

\* ------------------------------------------------------- AudioOutputStream
\* One settled or pending Deferred, and one ThreadSafeFunction
Promise(kind) == [kind |-> kind, state |-> "pending", value |-> 0]
Tsfn(kind) == [kind |-> kind, state |-> "open", queue |-> 0]

Settle(ps, d, how, v) == [ps EXCEPT ![d].state = how, ![d].value = v]

\* The observable outcome of a step: for a control-side call whether it
\* raised an exception, the waiter it returned (NULL: none, or a promise that
\* was settled at once) and the value it resolved with; for a drain the size
\* asked for, the destination as filled, the bytes copied and the signals
\* fired, whether a transport buffer was dequeued (acquired), how often it
\* was queued back (committed), with what chunk size, and the capacity it
\* had; for a format confirmation the geometry the service sent (param) and
\* whether formatChangeCallback was called.
Out(op) == [op |-> op, threw |-> FALSE, promise |-> NULL, value |-> 0,
            size |-> 0, dest |-> <<>>, copied |-> 0,
            firedReady |-> FALSE, firedFinished |-> FALSE,
            acquired |-> FALSE, committed |-> 0, chunkSize |-> 0,
            maxsize |-> 0,
            param |-> <<>>, notified |-> FALSE]

\* the copy loop with the whole front chunk's frames taken off the counter on
\* every pass, instead of the frames copied in that pass
RECURSIVE FillLoop_WholeChunk(_, _)
FillLoop_WholeChunk(st, stride) ==
    IF st.remainingBytes > 0 /\ Len(st.buffers) > 0
    THEN LET sourceJsBuffer == Head(st.buffers)
             sourceTotalBytes == sourceJsBuffer.size
             sourceRemaining == sourceTotalBytes - st.currentBufferOffset
             amtToCopy == IF st.remainingBytes > sourceRemaining
                          THEN sourceRemaining ELSE st.remainingBytes
             off == st.currentBufferOffset + amtToCopy
             evict == off >= sourceTotalBytes
         IN FillLoop_WholeChunk(
              [remainingBytes |-> st.remainingBytes - amtToCopy,
               totalWritten |-> st.totalWritten + amtToCopy,
               dest |-> st.dest \o ChunkBytes(sourceJsBuffer,
                                              st.currentBufferOffset, amtToCopy),
               queuedFrameCount |->
                   UintSub(st.queuedFrameCount, sourceTotalBytes \div stride),
               buffers |-> IF evict THEN Tail(st.buffers) ELSE st.buffers,
               currentBufferOffset |-> IF evict THEN 0 ELSE off],
              stride)
    ELSE st

\* the copy loop of fillBuffer (lines 634-653); st carries the locals and the
\* fields the loop updates
RECURSIVE FillLoop(_, _)
FillLoop(st, stride) ==
    IF st.remainingBytes > 0 /\ Len(st.buffers) > 0
    THEN LET sourceJsBuffer == Head(st.buffers)
             sourceTotalBytes == sourceJsBuffer.size
             sourceRemaining == sourceTotalBytes - st.currentBufferOffset
             amtToCopy == IF st.remainingBytes > sourceRemaining
                          THEN sourceRemaining ELSE st.remainingBytes
             off == st.currentBufferOffset + amtToCopy
             evict == off >= sourceTotalBytes
         IN FillLoop(
              [remainingBytes |-> st.remainingBytes - amtToCopy,
               totalWritten |-> st.totalWritten + amtToCopy,
               dest |-> st.dest \o ChunkBytes(sourceJsBuffer,
                                              st.currentBufferOffset, amtToCopy),
               queuedFrameCount |->
                   UintSub(st.queuedFrameCount, amtToCopy \div stride),
               buffers |-> IF evict THEN Tail(st.buffers) ELSE st.buffers,
               currentBufferOffset |-> IF evict THEN 0 ELSE off],
              stride)
    ELSE st

\* the zero fill left out: the tail of the destination keeps what it held
ZeroFill_Skip(st) == st

\* the zero fill of fillBuffer (lines 655-658)
ZeroFill(st) ==
    IF st.remainingBytes # 0
    THEN [st EXCEPT !.dest = st.dest \o Zeros(st.remainingBytes)]
    ELSE st

\* the space condition with the capacity boundary counted as free
ReadyCond_AtOrBelow(queued, deferral) ==
    ~UintLess(frameBufferSize, queued) /\ deferral # NULL

\* the two notification conditions of fillBuffer (lines 660 and 665)
ReadyCond(queued, deferral) ==
    UintLess(queued, frameBufferSize) /\ deferral # NULL
FinishedCond(totalWritten, deferral) == totalWritten = 0 /\ deferral # NULL

\* the space test reading the counter as it was when the call began
CountAtSignal_Before(before, after) == before

\* the value of queuedFrameCount that the space test of line 660 reads: the
\* one the copy loop left
CountAtSignal(before, after) == after

\* signal.NonBlockingCall(); signal.Release(): the outcomes on the handle
\* sig.  A handle whose last reference was released stays usable until the
\* loop finalises it; after that the handle is freed memory (undefined
\* behaviour: the call is lost, or the process dies).
\* Result: set of [tsfns, crashed]
Signal(ts, sig) ==
    CASE ts[sig].state = "open" ->
           {[tsfns |-> [ts EXCEPT ![sig].state = "released",
                                  ![sig].queue = @ + 1], crashed |-> FALSE]}
      [] ts[sig].state = "released" ->
           {[tsfns |-> [ts EXCEPT ![sig].queue = @ + 1], crashed |-> FALSE]}
      [] OTHER ->
           {[tsfns |-> ts, crashed |-> FALSE], [tsfns |-> ts, crashed |-> TRUE]}

\* fillBuffer(destBuffer, size), and what onProcess does with the buffer of
\* capacity maxsize after it (lines 788-792): chunk->size = byteCount,
\* pw_stream_queue_buffer
fillBuffer(size, maxsize) ==
    LET stride == getBytesPerFrame
        st0 == [remainingBytes |-> size, totalWritten |-> 0, dest |-> <<>>,
                queuedFrameCount |-> queuedFrameCount, buffers |-> buffers,
                currentBufferOffset |-> currentBufferOffset]
        st2 == ZeroFill(FillLoop(st0, stride))
        fireReady == ReadyCond(CountAtSignal(queuedFrameCount,
                                             st2.queuedFrameCount),
                               readyDeferral)
        fireFinished == FinishedCond(st2.totalWritten, finishedDeferral)
    IN /\ queuedFrameCount' = st2.queuedFrameCount
       /\ buffers' = st2.buffers
       /\ currentBufferOffset' = st2.currentBufferOffset
       /\ out' = [Out("onProcess") EXCEPT !.size = size, !.dest = st2.dest,
                                          !.copied = st2.totalWritten,
                                          !.firedReady = fireReady,
                                          !.firedFinished = fireFinished,
                                          !.acquired = TRUE,
                                          !.committed = 1,
                                          !.chunkSize = size,
                                          !.maxsize = maxsize]
       /\ \E r1 \in (IF fireReady THEN Signal(tsfns, readySignal)
                     ELSE {[tsfns |-> tsfns, crashed |-> FALSE]}) :
          \E r2 \in (IF fireFinished THEN Signal(r1.tsfns, finishedSignal)
                     ELSE {[tsfns |-> r1.tsfns, crashed |-> FALSE]}) :
             /\ tsfns' = r2.tsfns
             /\ crashed' = (r1.crashed \/ r2.crashed)
       /\ UNCHANGED <<readyDeferral, finishedDeferral, readySignal,
                      finishedSignal, promises>>

\* onProcess(userData): the real-time process callback.  haveBuffer: whether
\* pw_stream_dequeue_buffer returned a buffer; haveData: whether its data
\* pointer is set
onProcess(haveBuffer, haveData, maxsize, requested) ==
    /\ ~crashed
    /\ UNCHANGED <<inflight, formatChangeCallback>>
    /\ stream = "active"
    /\ nDrains' = nDrains + 1
    /\ IF ~haveBuffer
       THEN /\ out' = Out("outOfBuffers")
            /\ UNCHANGED <<queue, waiters, crashed>>
       ELSE IF ~haveData
       THEN /\ out' = [Out("noData") EXCEPT !.acquired = TRUE,
                                            !.maxsize = maxsize]
            /\ UNCHANGED <<queue, waiters, crashed>>
       ELSE LET stride == getBytesPerFrame
                numFrames == Min(maxsize \div stride, requested)
                byteCount == numFrames * stride
            IN fillBuffer(byteCount, maxsize)
    /\ UNCHANGED <<geometry, stream, teardown, nWrites, nFormatChanges>>

\* write(buffer): a failed alignment check raises the JavaScript exception
\* (ThrowAsJavaScriptException marks it pending and returns) and the function
\* carries on to line 566.  The chunk is annotated with the frame size in
\* effect when it was written (not a field of js_buffer: history only).
write(size) ==
    /\ ~crashed
    /\ UNCHANGED <<inflight, formatChangeCallback>>
    /\ LET frameSize == getBytesPerFrame
       IN /\ buffers' = Append(buffers,
                               [id |-> nWrites + 1, size |-> size,
                                frameSize |-> bytesPerSample * channels])
          /\ queuedFrameCount' = UintAdd(queuedFrameCount, size \div frameSize)
          /\ out' = [Out("write") EXCEPT !.threw = (size % frameSize # 0),
                                         !.size = size]
    /\ nWrites' = nWrites + 1
    /\ UNCHANGED <<geometry, stream, currentBufferOffset, waiters, teardown,
                   crashed, nDrains, nFormatChanges>>

\* the guard left out: every call that has to wait makes a new waiter
NeedsNewWaiter_Always(deferral) == TRUE

\* the guard on creating a waiter: if (!readyDeferral), if (!finishedDeferral)
NeedsNewWaiter(deferral) == deferral = NULL

\* isReady()
isReady ==
    /\ ~crashed
    /\ UNCHANGED <<inflight, formatChangeCallback>>
    /\ IF availableBytes > 0
       THEN /\ out' = [Out("isReady") EXCEPT !.value = availableBytes]
            /\ UNCHANGED <<readyDeferral, readySignal, promises, tsfns>>
       ELSE IF NeedsNewWaiter(readyDeferral)
       THEN /\ promises' = Append(promises, Promise("ready"))
            /\ tsfns' = Append(tsfns, Tsfn("ready"))
            /\ readyDeferral' = Len(promises) + 1
            /\ readySignal' = Len(tsfns) + 1
            /\ out' = [Out("isReady") EXCEPT !.promise = Len(promises) + 1]
       ELSE /\ out' = [Out("isReady") EXCEPT !.promise = readyDeferral]
            /\ UNCHANGED <<readyDeferral, readySignal, promises, tsfns>>
    /\ UNCHANGED <<geometry, stream, queue, finishedDeferral, finishedSignal,
                   teardown, crashed, counters>>

\* isFinished()
isFinished ==
    /\ ~crashed
    /\ UNCHANGED <<inflight, formatChangeCallback>>
    /\ IF queuedFrameCount = 0
       THEN /\ out' = Out("isFinished")
            /\ UNCHANGED <<finishedDeferral, finishedSignal, promises, tsfns>>
       ELSE IF NeedsNewWaiter(finishedDeferral)
       THEN /\ promises' = Append(promises, Promise("finished"))
            /\ tsfns' = Append(tsfns, Tsfn("finished"))
            /\ finishedDeferral' = Len(promises) + 1
            /\ finishedSignal' = Len(tsfns) + 1
            /\ out' = [Out("isFinished") EXCEPT !.promise = Len(promises) + 1]
       ELSE /\ out' = [Out("isFinished") EXCEPT !.promise = finishedDeferral]
            /\ UNCHANGED <<finishedDeferral, finishedSignal, promises, tsfns>>
    /\ UNCHANGED <<geometry, stream, queue, readyDeferral, readySignal,
                   teardown, crashed, counters>>

\* the JavaScript function behind readySignal (lines 591-599)
readyCallback ==
    IF availableBytes > 0
    THEN IF readyDeferral = NULL
         THEN /\ crashed' = TRUE
              /\ UNCHANGED <<readyDeferral, promises>>
         ELSE /\ promises' = Settle(promises, readyDeferral, "resolved",
                                    availableBytes)
              /\ readyDeferral' = NULL
              /\ UNCHANGED crashed
    ELSE UNCHANGED <<readyDeferral, promises, crashed>>

\* the JavaScript function behind finishedSignal (lines 617-621)
finishedCallback ==
    IF finishedDeferral = NULL
    THEN /\ crashed' = TRUE
         /\ UNCHANGED <<finishedDeferral, promises>>
    ELSE /\ promises' = Settle(promises, finishedDeferral, "resolved", 0)
         /\ finishedDeferral' = NULL
         /\ UNCHANGED crashed

\* the event loop delivers one queued call of the thread-safe function i
Deliver(i) ==
    /\ ~crashed
    /\ UNCHANGED <<inflight, formatChangeCallback>>
    /\ tsfns[i].queue > 0
    /\ tsfns' = [tsfns EXCEPT ![i].queue = @ - 1]
    /\ IF tsfns[i].kind = "ready"
       THEN readyCallback /\ UNCHANGED finishedDeferral
       ELSE finishedCallback /\ UNCHANGED readyDeferral
    /\ out' = Out("deliver")
    /\ UNCHANGED <<geometry, stream, queue, readySignal, finishedSignal,
                   teardown, counters>>

\* the event loop finalises a released thread-safe function whose queue is
\* empty; its handle is freed
Finalize(i) ==
    /\ ~crashed
    /\ UNCHANGED <<inflight, formatChangeCallback>>
    /\ tsfns[i].state = "released"
    /\ tsfns[i].queue = 0
    /\ tsfns' = [tsfns EXCEPT ![i].state = "closed"]
    /\ out' = Out("finalize")
    /\ UNCHANGED <<geometry, stream, queue, readyDeferral, finishedDeferral,
                   readySignal, finishedSignal, promises, teardown, crashed,
                   counters>>

\* the comparison with the rate and the channel count left out
GeometryDiffers_FormatOnly(newRate, newChannels, newFormat, newBytesPerSample) ==
    newFormat # format \/ newBytesPerSample # bytesPerSample

\* the comparison of onFormatChange (line 496)
GeometryDiffers(newRate, newChannels, newFormat, newBytesPerSample) ==
    \/ newRate # rate
    \/ newChannels # channels
    \/ newFormat # format
    \/ newBytesPerSample # bytesPerSample

\* onFormatChange(param): the service confirmed a geometry
onFormatChange(newFormat, newChannels, newRate) ==
    /\ ~crashed
    /\ UNCHANGED inflight
    /\ stream \in {"negotiating", "active"}
    /\ nFormatChanges' = nFormatChanges + 1
    /\ LET newBytesPerSample == BytesPerSampleOf(newFormat)
           differs == GeometryDiffers(newRate, newChannels, newFormat,
                                      newBytesPerSample)
       IN /\ IF differs
             THEN /\ rate' = newRate
                  /\ channels' = newChannels
                  /\ format' = newFormat
                  /\ bytesPerSample' = newBytesPerSample
                  /\ formatChangeCallback' =
                        Append(formatChangeCallback,
                               <<newFormat, newChannels, newRate>>)
             ELSE UNCHANGED <<geometry, formatChangeCallback>>
          /\ out' = [Out("onFormatChange") EXCEPT
                        !.param = <<newFormat, newChannels, newRate>>,
                        !.notified = differs]
    /\ stream' = "active"
    /\ UNCHANGED <<queue, waiters, teardown, crashed, nWrites, nDrains>>

\* the event loop runs the oldest queued notification (lines 502-508): the
\* object handed to JavaScript is built from the fields as they are now
DeliverFormatChange ==
    /\ ~crashed
    /\ formatChangeCallback # <<>>
    /\ formatChangeCallback' = Tail(formatChangeCallback)
    /\ out' = [Out("formatChange") EXCEPT !.param = <<format, channels, rate>>]
    /\ UNCHANGED <<geometry, stream, queue, waiters, teardown, crashed,
                   inflight, counters>>

\* connect(options): queues connectStream on the worker pool
connect ==
    /\ ~crashed
    /\ UNCHANGED <<inflight, formatChangeCallback>>
    /\ connectWork = "none"
    /\ connectWork' = "queued"
    /\ out' = Out("connect")
    /\ UNCHANGED <<geometry, stream, queue, waiters, destroyWork,
                   streamDestroys, callbackReleases, propsRefs, crashed,
                   counters>>

\* connectStream(): pw_stream_connect(stream, ...) under the thread lock
connectStream ==
    /\ ~crashed
    /\ UNCHANGED <<inflight, formatChangeCallback>>
    /\ connectWork = "queued"
    /\ connectWork' = "executed"
    /\ IF stream = "NULL"
       THEN crashed' = TRUE /\ UNCHANGED stream
       ELSE /\ stream' = IF stream = "unconnected" THEN "negotiating"
                         ELSE stream
            /\ UNCHANGED crashed
    /\ out' = Out("connectStream")
    /\ UNCHANGED <<geometry, queue, waiters, destroyWork, streamDestroys,
                   callbackReleases, propsRefs, counters>>

\* PromiseWorker::OnOK of the connect worker
connectOnOK ==
    /\ ~crashed
    /\ UNCHANGED <<inflight, formatChangeCallback>>
    /\ connectWork = "executed"
    /\ connectWork' = "done"
    /\ out' = Out("connectOnOK")
    /\ UNCHANGED <<geometry, stream, queue, waiters, destroyWork,
                   streamDestroys, callbackReleases, propsRefs, crashed,
                   counters>>

\* destroy(): rejects the pending waiters, then queues _destroy
destroy ==
    /\ ~crashed
    /\ UNCHANGED <<inflight, formatChangeCallback>>
    /\ LET p1 == IF readyDeferral # NULL
                 THEN Settle(promises, readyDeferral, "rejected", 0)
                 ELSE promises
           p2 == IF finishedDeferral # NULL
                 THEN Settle(p1, finishedDeferral, "rejected", 0)
                 ELSE p1
       IN promises' = p2
    /\ readyDeferral' = NULL
    /\ finishedDeferral' = NULL
    /\ destroyWork' = Append(destroyWork, "queued")
    /\ out' = Out("destroy")
    /\ UNCHANGED <<geometry, stream, queue, readySignal, finishedSignal, tsfns,
                   connectWork, streamDestroys, callbackReleases, propsRefs,
                   crashed, counters>>

\* _destroy(): pw_stream_destroy under the thread lock, guarded by stream
_destroy(i) ==
    /\ ~crashed
    /\ UNCHANGED <<inflight, formatChangeCallback>>
    /\ destroyWork[i] = "queued"
    /\ destroyWork' = [destroyWork EXCEPT ![i] = "executed"]
    /\ IF stream # "NULL"
       THEN stream' = "NULL" /\ streamDestroys' = streamDestroys + 1
       ELSE UNCHANGED <<stream, streamDestroys>>
    /\ out' = Out("_destroy")
    /\ UNCHANGED <<geometry, queue, waiters, connectWork, callbackReleases,
                   propsRefs, crashed, counters>>

\* the resolveAs function of destroy (lines 688-696), run by OnOK: releases
\* the five notification channels and drops the reference on props.  A release
\* of a channel whose handle was already finalised is undefined behaviour
\* (the process dies, or the call fails and returns); Unref of a reference
\* whose count is zero throws.
destroyOnOK(i, dies) ==
    /\ ~crashed
    /\ UNCHANGED <<inflight, formatChangeCallback>>
    /\ destroyWork[i] = "executed"
    /\ callbackReleases' = callbackReleases + 1
    /\ IF callbackReleases > 0 /\ dies
       THEN /\ crashed' = TRUE
            /\ UNCHANGED <<propsRefs, destroyWork>>
            /\ out' = Out("destroyOnOK")
       ELSE /\ UNCHANGED crashed
            /\ IF propsRefs = 0
               THEN /\ destroyWork' = [destroyWork EXCEPT ![i] = "threw"]
                    /\ out' = [Out("destroyOnOK") EXCEPT !.threw = TRUE]
                    /\ UNCHANGED propsRefs
               ELSE /\ destroyWork' = [destroyWork EXCEPT ![i] = "resolved"]
                    /\ out' = Out("destroyOnOK")
                    /\ propsRefs' = propsRefs - 1
    /\ UNCHANGED <<geometry, stream, queue, waiters, connectWork,
                   streamDestroys, counters>>

\* ------------------------------------------- write and drain, step by step
\* write() runs on the JavaScript thread and fillBuffer on the real-time
\* thread of the transport, neither under a lock: the steps below are the
\* single reads and updates of the shared fields, in program order.  wpc and
\* dpc are the positions of the two calls, wreg and dreg the value of
\* queuedFrameCount each has loaded; priorFrames and priorBytes remember the
\* queue as it was before either call began.
Idle == [wpc |-> "idle", wsize |-> 0, wreg |-> 0,
         dpc |-> "idle", remainingBytes |-> 0, totalWritten |-> 0,
         dest |-> <<>>, amtToCopy |-> 0, dreg |-> 0, maxsize |-> 0,
         priorFrames |-> 0, priorBytes |-> 0]

\* write(), lines 550-572: the chunk is pushed
writePush(size) ==
    /\ ~crashed
    /\ inflight.wpc = "idle"
    /\ buffers' = Append(buffers,
                         [id |-> nWrites + 1, size |-> size,
                          frameSize |-> bytesPerSample * channels])
    /\ nWrites' = nWrites + 1
    /\ inflight' = [inflight EXCEPT !.wpc = "load", !.wsize = size]
    /\ out' = Out("writePush")
    /\ UNCHANGED <<geometry, stream, formatChangeCallback, queuedFrameCount, currentBufferOffset,
                   waiters, teardown, crashed, nDrains, nFormatChanges>>

\* write(), line 573: queuedFrameCount is read ...
writeLoad ==
    /\ ~crashed
    /\ inflight.wpc = "load"
    /\ inflight' = [inflight EXCEPT !.wpc = "store", !.wreg = queuedFrameCount]
    /\ out' = Out("writeLoad")
    /\ UNCHANGED <<geometry, stream, formatChangeCallback, queue, waiters, teardown, crashed,
                   counters>>

\* ... and written back with the frames of the chunk added
writeStore ==
    /\ ~crashed
    /\ inflight.wpc = "store"
    /\ queuedFrameCount' =
          UintAdd(inflight.wreg, inflight.wsize \div getBytesPerFrame)
    /\ inflight' = [inflight EXCEPT !.wpc = "done"]
    /\ out' = [Out("write") EXCEPT
                  !.threw = (inflight.wsize % getBytesPerFrame # 0),
                  !.size = inflight.wsize]
    /\ UNCHANGED <<geometry, stream, formatChangeCallback, buffers, currentBufferOffset, waiters,
                   teardown, crashed, counters>>

\* onProcess up to the call of fillBuffer, and the locals of fillBuffer
\* (lines 630-633)
drainBegin(maxsize, requested) ==
    /\ ~crashed
    /\ stream = "active"
    /\ inflight.dpc = "idle"
    /\ LET stride == getBytesPerFrame
           numFrames == Min(maxsize \div stride, requested)
           byteCount == numFrames * stride
       IN /\ inflight' = [inflight EXCEPT !.dpc = "test",
                                          !.remainingBytes = byteCount,
                                          !.totalWritten = 0,
                                          !.dest = <<>>,
                                          !.maxsize = maxsize]
          /\ out' = [Out("drainBegin") EXCEPT !.size = byteCount]
    /\ UNCHANGED <<geometry, stream, formatChangeCallback, queue, waiters, teardown, crashed,
                   counters>>

\* one pass of the copy loop up to line 646: the loop test, the copy and the
\* updates of the totals and of currentBufferOffset
drainCopy ==
    /\ ~crashed
    /\ inflight.dpc = "test"
    /\ inflight.remainingBytes > 0 /\ Len(buffers) > 0
    /\ LET sourceJsBuffer == Head(buffers)
           sourceTotalBytes == sourceJsBuffer.size
           sourceRemaining == sourceTotalBytes - currentBufferOffset
           amtToCopy == IF inflight.remainingBytes > sourceRemaining
                        THEN sourceRemaining ELSE inflight.remainingBytes
       IN /\ inflight' =
               [inflight EXCEPT
                  !.dpc = "load",
                  !.remainingBytes = @ - amtToCopy,
                  !.totalWritten = @ + amtToCopy,
                  !.dest = @ \o ChunkBytes(sourceJsBuffer, currentBufferOffset,
                                          amtToCopy),
                  !.amtToCopy = amtToCopy]
          /\ currentBufferOffset' = currentBufferOffset + amtToCopy
    /\ out' = Out("drainCopy")
    /\ UNCHANGED <<geometry, stream, formatChangeCallback, queuedFrameCount, buffers, waiters,
                   teardown, crashed, counters>>

\* line 647: queuedFrameCount is read ...
drainLoad ==
    /\ ~crashed
    /\ inflight.dpc = "load"
    /\ inflight' = [inflight EXCEPT !.dpc = "store", !.dreg = queuedFrameCount]
    /\ out' = Out("drainLoad")
    /\ UNCHANGED <<geometry, stream, formatChangeCallback, queue, waiters, teardown, crashed,
                   counters>>

\* ... and written back with the frames copied taken off; then lines
\* 648-652: a chunk read to its end is popped
drainStore ==
    /\ ~crashed
    /\ inflight.dpc = "store"
    /\ queuedFrameCount' =
          UintSub(inflight.dreg, inflight.amtToCopy \div getBytesPerFrame)
    /\ IF currentBufferOffset >= Head(buffers).size
       THEN buffers' = Tail(buffers) /\ currentBufferOffset' = 0
       ELSE UNCHANGED <<buffers, currentBufferOffset>>
    /\ inflight' = [inflight EXCEPT !.dpc = "test"]
    /\ out' = Out("drainStore")
    /\ UNCHANGED <<geometry, stream, formatChangeCallback, waiters, teardown, crashed, counters>>

\* the loop test fails: the zero fill and the two notifications (lines
\* 655-668)
drainFinish ==
    /\ ~crashed
    /\ inflight.dpc = "test"
    /\ ~(inflight.remainingBytes > 0 /\ Len(buffers) > 0)
    /\ LET st2 == ZeroFill([remainingBytes |-> inflight.remainingBytes,
                            dest |-> inflight.dest])
           fireReady == ReadyCond(queuedFrameCount, readyDeferral)
           fireFinished == FinishedCond(inflight.totalWritten, finishedDeferral)
       IN /\ inflight' = [inflight EXCEPT !.dpc = "done", !.dest = st2.dest]
          /\ out' = [Out("onProcess") EXCEPT
                        !.size = Len(st2.dest), !.dest = st2.dest,
                        !.copied = inflight.totalWritten,
                        !.firedReady = fireReady,
                        !.firedFinished = fireFinished,
                        !.acquired = TRUE,
                        !.committed = 1,
                        !.chunkSize = Len(st2.dest),
                        !.maxsize = inflight.maxsize]
          /\ \E r1 \in (IF fireReady THEN Signal(tsfns, readySignal)
                        ELSE {[tsfns |-> tsfns, crashed |-> FALSE]}) :
             \E r2 \in (IF fireFinished THEN Signal(r1.tsfns, finishedSignal)
                        ELSE {[tsfns |-> r1.tsfns, crashed |-> FALSE]}) :
                /\ tsfns' = r2.tsfns
                /\ crashed' = (r1.crashed \/ r2.crashed)
    /\ nDrains' = nDrains + 1
    /\ UNCHANGED <<geometry, stream, formatChangeCallback, queue, readyDeferral, finishedDeferral,
                   readySignal, finishedSignal, promises, teardown, nWrites,
                   nFormatChanges>>

\* --------------------------------------------------------------- the system
CreateFormats == {"F64", "S16"}

\* what the constructor leaves: nothing queued, nobody waiting, no work in
\* flight
Constructed ==
    /\ queuedFrameCount = 0
    /\ buffers = <<>>
    /\ currentBufferOffset = 0
    /\ readyDeferral = NULL
    /\ finishedDeferral = NULL
    /\ readySignal = NULL
    /\ finishedSignal = NULL
    /\ promises = <<>>
    /\ tsfns = <<>>
    /\ destroyWork = <<>>
    /\ streamDestroys = 0
    /\ callbackReleases = 0
    /\ propsRefs = 1
    /\ crashed = FALSE
    /\ out = Out("create")
    /\ inflight = Idle
    /\ formatChangeCallback = <<>>
    /\ nWrites = 0
    /\ nDrains = 0

\* what the initial conditions share: the default rate and channel count on
\* a stream just constructed
Fresh ==
    /\ rate = DEFAULT_RATE
    /\ channels = DEFAULT_CHANNELS
    /\ Constructed

\* the stream as create() leaves it: geometry from the create options, the
\* transport stream made (initStream)
Init ==
    /\ format \in CreateFormats
    /\ bytesPerSample = BytesPerSampleOf(format)
    /\ stream = "unconnected"
    /\ connectWork = "none"
    /\ nFormatChanges = 0
    /\ Fresh

\* the byte lengths the producer passes to write(): empty, whole frames, and
\* one that is not a whole number of frames
WriteSizes == {0} \cup {f * getBytesPerFrame : f \in WriteFrames}
              \cup {getBytesPerFrame + 1}

\* the operations of the producer, the consumer and the event loop on a
\* stream, each bounded in number
QueueOps(maxWrites, maxDrains) ==
    \/ /\ nWrites < maxWrites
       /\ \E size \in WriteSizes : write(size)
    \/ /\ nDrains < maxDrains
       /\ \E haveBuffer \in BOOLEAN, haveData \in BOOLEAN,
             maxsize \in MaxSizes, requested \in RequestedFrames :
            onProcess(haveBuffer, haveData, maxsize, requested)
    \/ isReady
    \/ isFinished
    \/ \E i \in DOMAIN tsfns : Deliver(i)
    \/ \E i \in DOMAIN tsfns : Finalize(i)

\* teardown: destroy() calls, bounded in number, and their workers
DestroyOps ==
    \/ Len(destroyWork) < MaxDestroys /\ destroy
    \/ \E i \in DOMAIN destroyWork : _destroy(i)
    \/ \E i \in DOMAIN destroyWork, dies \in BOOLEAN : destroyOnOK(i, dies)

Next ==
    \/ QueueOps(MaxWrites, MaxDrains)
    \/ /\ nFormatChanges < MaxFormatChanges
       /\ \E f \in ConfirmedFormats, c \in ConfirmedChannels,
             r \in ConfirmedRates : onFormatChange(f, c, r)
    \/ connect
    \/ connectStream
    \/ connectOnOK
    \/ DestroyOps

Spec == Init /\ [][Next]_vars

\* A connected stream whose geometry the service has confirmed and does not
\* change again: the producer, the consumer and the event loop only
InitActive ==
    /\ format \in CreateFormats
    /\ bytesPerSample = BytesPerSampleOf(format)
    /\ stream = "active"
    /\ connectWork = "done"
    /\ nFormatChanges = 1
    /\ Fresh

SpecQueue == InitActive /\ [][QueueOps(MaxWrites, MaxDrains)]_vars

\* The same stream with teardown: destroy() at any point
NextTeardown == QueueOps(MaxTeardownWrites, MaxTeardownDrains) \/ DestroyOps

SpecTeardown == InitActive /\ [][NextTeardown]_vars

\* format confirmations, bounded in number, over the encodings in formats
\* and the rates in rates
FormatOps(maxChanges, formats, rates) ==
    /\ nFormatChanges < maxChanges
    /\ \E f \in formats, c \in ConfirmedChannels, r \in rates :
          onFormatChange(f, c, r)

\* the real-time callback, bounded in number
DrainOps(maxDrains) ==
    /\ nDrains < maxDrains
    /\ \E haveBuffer \in BOOLEAN, haveData \in BOOLEAN,
          maxsize \in MaxSizes, requested \in RequestedFrames :
         onProcess(haveBuffer, haveData, maxsize, requested)

\* A stream whose connect has been issued and whose geometry the service has
\* not confirmed yet
InitNegotiating ==
    /\ format \in CreateFormats
    /\ bytesPerSample = BytesPerSampleOf(format)
    /\ stream = "negotiating"
    /\ connectWork = "executed"
    /\ nFormatChanges = 0
    /\ Fresh

\* The producer writing and the consumer draining while the service confirms
\* and changes the geometry
NextFormat ==
    \/ /\ nWrites < MaxFormatWrites
       /\ \E size \in WriteSizes : write(size)
    \/ DrainOps(MaxFormatDrains)
    \/ FormatOps(MaxFormatChanges, ConfirmedFormats, ConfirmedRates)

SpecFormat == InitNegotiating /\ [][NextFormat]_vars

\* The same with a disciplined producer: every write is a whole, positive
\* number of frames at the frame size in effect when it is made
NextAlignedFormat ==
    \/ /\ nWrites < MaxFormatWrites
       /\ \E f \in WriteFrames : write(f * getBytesPerFrame)
    \/ DrainOps(MaxFormatDrains)
    \/ FormatOps(MaxFormatChanges, ConfirmedFormats, ConfirmedRates)

SpecAlignedFormat == InitNegotiating /\ [][NextAlignedFormat]_vars

\* Format confirmations alone, over every row of the bytes-per-sample table
SpecGeometry ==
    InitNegotiating
    /\ [][FormatOps(MaxGeometryChanges, TableFormats, GeometryRates)]_vars

\* Format confirmations and the delivery of their notifications
NextNotify ==
    \/ FormatOps(MaxGeometryChanges, ConfirmedFormats, GeometryRates)
    \/ DeliverFormatChange

SpecNotify == InitNegotiating /\ [][NextNotify]_vars

\* The connection state machine: connect, format confirmation, drains and
\* destroy, from a stream that create() has just returned
NextLifecycle ==
    \/ connect
    \/ connectStream
    \/ connectOnOK
    \/ FormatOps(MaxFormatChanges, ConfirmedFormats, ConfirmedRates)
    \/ DrainOps(MaxTeardownDrains)
    \/ DestroyOps

SpecLifecycle == Init /\ [][NextLifecycle]_vars

\* destroy() called while the connect work is in flight: connect() has
\* returned, connectStream is queued on the worker pool
InitConnecting ==
    /\ format \in CreateFormats
    /\ bytesPerSample = BytesPerSampleOf(format)
    /\ stream = "unconnected"
    /\ connectWork = "queued"
    /\ nFormatChanges = 0
    /\ Fresh

NextConnectRace ==
    \/ connectStream
    \/ connectOnOK
    \/ FormatOps(MaxFormatChanges, ConfirmedFormats, ConfirmedRates)
    \/ DrainOps(MaxTeardownDrains)
    \/ DestroyOps

SpecConnectRace == InitConnecting /\ [][NextConnectRace]_vars

\* the stream as create() leaves it when the options may name any channel
\* count: create() copies options.channels into the field as it comes
CreateChannels == {0, 1, DEFAULT_CHANNELS}

InitOptions ==
    /\ format \in CreateFormats
    /\ bytesPerSample = BytesPerSampleOf(format)
    /\ rate = DEFAULT_RATE
    /\ channels \in CreateChannels
    /\ stream = "unconnected"
    /\ connectWork = "none"
    /\ nFormatChanges = 0
    /\ Constructed

\* connect, format confirmation and destroy on such a stream
NextOptions ==
    \/ connect
    \/ connectStream
    \/ connectOnOK
    \/ FormatOps(MaxFormatChanges, ConfirmedFormats, ConfirmedRates)
    \/ DestroyOps

SpecOptions == InitOptions /\ [][NextOptions]_vars

\* One write() and one drain running against each other step by step on an
\* active stream that holds the chunks of up to MaxPriorWrites earlier
\* one-frame writes
InitInterleave ==
    /\ format \in CreateFormats
    /\ bytesPerSample = BytesPerSampleOf(format)
    /\ rate = DEFAULT_RATE
    /\ channels = DEFAULT_CHANNELS
    /\ stream = "active"
    /\ connectWork = "done"
    /\ nFormatChanges = 1
    /\ \E k \in 0..MaxPriorWrites :
         /\ nWrites = k
         /\ queuedFrameCount = k
         /\ buffers = [i \in 1..k |->
                         [id |-> i, size |-> getBytesPerFrame,
                          frameSize |-> getBytesPerFrame]]
         /\ out = IF k = 0 THEN Out("create")
                  ELSE [Out("write") EXCEPT !.size = getBytesPerFrame]
         /\ inflight = [Idle EXCEPT !.priorFrames = k,
                                    !.priorBytes = k * getBytesPerFrame]
    /\ formatChangeCallback = <<>>
    /\ currentBufferOffset = 0
    /\ readyDeferral = NULL
    /\ finishedDeferral = NULL
    /\ readySignal = NULL
    /\ finishedSignal = NULL
    /\ promises = <<>>
    /\ tsfns = <<>>
    /\ destroyWork = <<>>
    /\ streamDestroys = 0
    /\ callbackReleases = 0
    /\ propsRefs = 1
    /\ crashed = FALSE
    /\ nDrains = 0

NextInterleave ==
    \/ \E f \in WriteFrames : writePush(f * getBytesPerFrame)
    \/ writeLoad
    \/ writeStore
    \/ \E maxsize \in MaxSizes, requested \in RequestedFrames :
         drainBegin(maxsize, requested)
    \/ drainCopy
    \/ drainLoad
    \/ drainStore
    \/ drainFinish

SpecInterleave == InitInterleave /\ [][NextInterleave]_vars

\* ------------------------------------------------------------------ claims
\* total unread bytes of a queue whose front chunk is read up to off, and its
\* k-th unread byte (k = 1 is the oldest)
RECURSIVE TotalSize(_)
TotalSize(bufs) == IF bufs = <<>> THEN 0 ELSE Head(bufs).size + TotalSize(Tail(bufs))
TotalUnread(bufs, off) == TotalSize(bufs) - off

RECURSIVE NthUnread(_, _, _)
NthUnread(bufs, off, k) ==
    IF k <= Head(bufs).size - off THEN <<Head(bufs).id, off + k - 1>>
    ELSE NthUnread(Tail(bufs), 0, k - (Head(bufs).size - off))

FrameAligned(bufs, off, stride) ==
    /\ off % stride = 0
    /\ \A i \in DOMAIN bufs : bufs[i].size % stride = 0

DrainStep == nDrains' = nDrains + 1 /\ out'.op = "onProcess"
PendingOf(kind) ==
    {p \in DOMAIN promises :
        promises[p].kind = kind /\ promises[p].state = "pending"}

\* C1: a drain call asked for N bytes writes exactly N bytes: first the
\* k = min(N, unread bytes) oldest unread bytes in order, then N - k zeros;
\* with frame-aligned chunks it lowers queuedFrameCount by exactly k / stride.
C1_DrainWritesExactlyN ==
    [][DrainStep =>
        LET N == out'.size
            k == Min(N, TotalUnread(buffers, currentBufferOffset))
            stride == bytesPerSample * channels
        IN /\ Len(out'.dest) = N
           /\ out'.copied = k
           /\ \A i \in 1..k :
                out'.dest[i] = NthUnread(buffers, currentBufferOffset, i)
           /\ \A i \in (k + 1)..N : out'.dest[i] = <<0, 0>>
           /\ FrameAligned(buffers, currentBufferOffset, stride)
                => queuedFrameCount' = queuedFrameCount - (k \div stride)]_vars

\* a drain that copied from two chunks and then zero-filled
C1_Witness ==
    /\ out.op = "onProcess"
    /\ 0 < out.copied /\ out.copied < out.size
    /\ \E i, j \in 1..out.copied : out.dest[i][1] # out.dest[j][1]

\* C2: with write and drain calls only, queuedFrameCount never wraps below
\* zero (a wrapped uint reads negative here).
C2_NeverNegative == queuedFrameCount >= 0

\* a drain brought the counter back to zero after writes, one of which was
\* not a whole number of frames
C2_Witness ==
    /\ out.op = "onProcess"
    /\ out.copied > 0
    /\ out.copied % (bytesPerSample * channels) # 0
    /\ queuedFrameCount = 0

\* C3: a write whose length is not a multiple of bytesPerFrame is reported as
\* an error and leaves the queue unchanged.
C3_MisalignedWriteRejected ==
    [][(nWrites' = nWrites + 1
        /\ out'.size % (bytesPerSample * channels) # 0)
       => (out'.threw /\ UNCHANGED <<buffers, queuedFrameCount>>)]_vars

\* C4 as claimed: a drain call signals the pending waitForSpace waiter exactly
\* when it leaves queuedFrameCount at or under frameBufferSize.
C4_SignalAtOrUnderCapacity ==
    (out.op = "onProcess" /\ readyDeferral # NULL)
    => (out.firedReady <=> queuedFrameCount <= frameBufferSize)

\* C4 as amended: a drain call signals the pending waitForSpace waiter exactly
\* when it leaves queuedFrameCount strictly under frameBufferSize.
C4_SignalUnderCapacity ==
    (out.op = "onProcess" /\ readyDeferral # NULL)
    => (out.firedReady <=>
          (queuedFrameCount >= 0 /\ queuedFrameCount < frameBufferSize))

\* a drain that copied data signalled the pending waiter
C4_Witness ==
    /\ out.op = "onProcess"
    /\ readyDeferral # NULL
    /\ out.copied > 0
    /\ out.firedReady
    /\ queuedFrameCount = frameBufferSize - 1

\* C5: a drain call fully satisfied from queued data that leaves
\* queuedFrameCount equal to frameBufferSize zero-fills nothing and fires no
\* space-available signal.
C5_NoSignalAtCapacity ==
    (out.op = "onProcess" /\ out.copied = out.size
     /\ queuedFrameCount = frameBufferSize)
    => /\ \A i \in DOMAIN out.dest : out.dest[i] # <<0, 0>>
       /\ ~out.firedReady

\* such a drain, of at least one frame, with a waiter pending
C5_Witness ==
    /\ out.op = "onProcess"
    /\ out.size > 0
    /\ out.copied = out.size
    /\ queuedFrameCount = frameBufferSize
    /\ readyDeferral # NULL

\* C6: a drain call signals the pending drained waiter exactly when it copied
\* zero bytes, and it copies zero bytes only when no unread data was queued
\* when it began; on an empty queue queuedFrameCount stays as it is.
C6_DrainedOnlyWhenEmpty ==
    [][DrainStep =>
        /\ out'.firedFinished <=> (out'.copied = 0 /\ finishedDeferral # NULL)
        /\ out'.copied = 0 => TotalUnread(buffers, currentBufferOffset) = 0
        /\ buffers = <<>> => UNCHANGED queuedFrameCount]_vars

\* C7: isReady() resolves at once, with (frameBufferSize - queuedFrameCount) *
\* bytesPerFrame, iff frameBufferSize - queuedFrameCount > 0; otherwise it
\* returns a waiter that is pending and settles nothing.
C7_ImmediateIffSpace ==
    out.op = "isReady" =>
        IF frameBufferSize - queuedFrameCount > 0
        THEN /\ out.promise = NULL
             /\ out.value = (frameBufferSize - queuedFrameCount)
                            * bytesPerSample * channels
        ELSE /\ out.promise # NULL
             /\ out.promise = readyDeferral
             /\ promises[out.promise].state = "pending"
             /\ out.value = 0

\* isReady() resolved at once on a partly filled queue
C7_Witness ==
    /\ out.op = "isReady"
    /\ out.promise = NULL
    /\ 0 < queuedFrameCount /\ queuedFrameCount < frameBufferSize
    /\ out.value > 0

\* C8 as claimed: at most one waiter of each kind is pending, and a call made
\* while one is pending returns that pending waiter.
C8_PendingCallReturnsSame ==
    /\ Cardinality(PendingOf("ready")) <= 1
    /\ Cardinality(PendingOf("finished")) <= 1
    /\ (out.op = "isReady" /\ readyDeferral # NULL)
           => out.promise = readyDeferral
    /\ (out.op = "isFinished" /\ finishedDeferral # NULL)
           => out.promise = finishedDeferral

\* C8 as amended: at most one waiter of each kind is pending and it is the
\* one the stream holds; a call made while one is pending either resolves at
\* once (space is free, resp. nothing is queued) or returns that waiter; and
\* every waiter came with exactly one signal channel.
C8_AtMostOnePending ==
    /\ PendingOf("ready") =
           (IF readyDeferral = NULL THEN {} ELSE {readyDeferral})
    /\ PendingOf("finished") =
           (IF finishedDeferral = NULL THEN {} ELSE {finishedDeferral})
    /\ (out.op = "isReady" /\ readyDeferral # NULL)
           => \/ out.promise = readyDeferral
              \/ out.promise = NULL /\ queuedFrameCount < frameBufferSize
    /\ (out.op = "isFinished" /\ finishedDeferral # NULL)
           => \/ out.promise = finishedDeferral
              \/ out.promise = NULL /\ queuedFrameCount = 0
    /\ Len(tsfns) = Len(promises)
    /\ \A i \in DOMAIN tsfns : tsfns[i].kind = promises[i].kind

\* isReady() returned the pending waiter that an earlier call had created:
\* the drained waiter is younger than it
C8_Witness ==
    /\ out.op = "isReady"
    /\ out.promise # NULL
    /\ finishedDeferral # NULL
    /\ out.promise < finishedDeferral

\* C9: once teardown has completed no waiter is pending.
C9_NoWaiterAfterTeardown ==
    (/\ destroyWork # <<>>
     /\ \A i \in DOMAIN destroyWork : destroyWork[i] \in {"resolved", "threw"}
     /\ stream = "NULL")
    => \A p \in DOMAIN promises : promises[p].state # "pending"

\* C10: however often destroy() is called, the transport stream and the
\* notification channels are released at most once and no call fails.
C10_DestroyIdempotent ==
    /\ streamDestroys <= 1
    /\ callbackReleases <= 1
    /\ \A i \in DOMAIN destroyWork : destroyWork[i] # "threw"
    /\ (crashed => out.op # "destroyOnOK")

\* C11: the transport connect is never issued on a stream handle that
\* destroy has released, and once the handle is released no drain callback
\* runs.
C11_ConnectNeverOnReleased ==
    [][/\ (connectWork = "queued" /\ connectWork' = "executed")
            => stream # "NULL"
       /\ stream = "NULL" => nDrains' = nDrains]_vars

\* C12: a write issued after destroy() has been called is not accepted into
\* the queue, and no notification channel is released before the stream is
\* detached.
C12_TeardownOrder ==
    [][/\ (destroyWork # <<>> /\ nWrites' = nWrites + 1)
            => UNCHANGED <<buffers, queuedFrameCount>>
       /\ callbackReleases' # callbackReleases => stream = "NULL"]_vars

\* C13: a frame-aligned write is accepted whatever queuedFrameCount is: the
\* chunk is appended, the counter raised by its frames and no error raised.
C13_WriteAlwaysAccepted ==
    [][(nWrites' = nWrites + 1
        /\ out'.size % (bytesPerSample * channels) = 0)
       => /\ Len(buffers') = Len(buffers) + 1
          /\ buffers'[Len(buffers')].size = out'.size
          /\ buffers'[Len(buffers')].id = nWrites'
          /\ \A i \in DOMAIN buffers : buffers'[i] = buffers[i]
          /\ queuedFrameCount' =
               queuedFrameCount + out'.size \div (bytesPerSample * channels)
          /\ ~out'.threw]_vars

\* a write accepted by a queue that was already at capacity
C13_Witness ==
    /\ out.op = "write"
    /\ ~out.threw
    /\ out.size > 0
    /\ queuedFrameCount - out.size \div (bytesPerSample * channels)
         >= frameBufferSize
    /\ Len(buffers) >= 2

\* C14: after frame-aligned writes and no drain, queuedFrameCount is the sum
\* over the writes of length / bytesPerFrame, each at the geometry in effect
\* when the write occurred.
RECURSIVE SumOfFrames(_)
SumOfFrames(bufs) ==
    IF bufs = <<>> THEN 0
    ELSE Head(bufs).size \div Head(bufs).frameSize + SumOfFrames(Tail(bufs))

C14_SumOfWrites ==
    (/\ nDrains = 0
     /\ \A i \in DOMAIN buffers : buffers[i].size % buffers[i].frameSize = 0)
    => /\ Len(buffers) = nWrites
       /\ queuedFrameCount = SumOfFrames(buffers)

\* two aligned writes made at different frame sizes, nothing drained
C14_Witness ==
    /\ nDrains = 0
    /\ Len(buffers) = 2
    /\ buffers[1].frameSize # buffers[2].frameSize
    /\ \A i \in DOMAIN buffers :
         buffers[i].size > 0 /\ buffers[i].size % buffers[i].frameSize = 0

\* C15: once destroy has released the transport stream it stays released and
\* no transport connect is issued; the stream leaves Unconnected only by the
\* connect being issued and becomes Active only by a confirmed geometry.
C15_DestroyedTerminal ==
    [][/\ stream = "NULL"
            => /\ stream' = "NULL"
               /\ ~(connectWork = "queued" /\ connectWork' = "executed")
       /\ (stream' = "negotiating" /\ stream # "negotiating")
            => /\ stream = "unconnected"
               /\ connectWork = "queued" /\ connectWork' = "executed"
       /\ (stream' = "active" /\ stream # "active")
            => /\ stream = "negotiating"
               /\ nFormatChanges' = nFormatChanges + 1]_vars

\* C16: a format confirmation makes the geometry the confirmed one and calls
\* formatChangeCallback iff rate, channels, format or bytesPerSample differs
\* from what the stream held before; otherwise nothing changes.
C16_ApplyAndReport ==
    [][nFormatChanges' = nFormatChanges + 1
       => /\ format' = out'.param[1]
          /\ channels' = out'.param[2]
          /\ rate' = out'.param[3]
          /\ bytesPerSample' = BytesPerSampleOf(out'.param[1])
          /\ out'.notified <=>
               (<<rate', channels', format', bytesPerSample'>>
                  # <<rate, channels, format, bytesPerSample>>)
          /\ ~out'.notified => UNCHANGED geometry]_vars

\* the second confirmation repeated the first one, which had changed the
\* encoding, and reported nothing
C16_Witness ==
    /\ out.op = "onFormatChange"
    /\ nFormatChanges = 2
    /\ ~out.notified
    /\ format \notin CreateFormats

\* C17: the bytes per sample after a format confirmation follow the table
\* F64 -> 8; F32 -> 4; S32, U32, S24_32 -> 4; S16, U16 -> 2; any other -> 4,
\* and the bytes per frame are that times the confirmed channel count.
C17_BytesPerSampleTable ==
    out.op = "onFormatChange"
    => /\ format = out.param[1]
       /\ format = "F64" => bytesPerSample = 8
       /\ format = "F32" => bytesPerSample = 4
       /\ format \in {"S32", "U32", "S24_32"} => bytesPerSample = 4
       /\ format \in {"S16", "U16"} => bytesPerSample = 2
       /\ format \notin {"F64", "F32", "S32", "U32", "S24_32", "S16", "U16"}
            => bytesPerSample = 4
       /\ getBytesPerFrame = bytesPerSample * out.param[2]

\* the 24-in-32-bit encoding confirmed after a 16-bit one
C17_Witness ==
    /\ out.op = "onFormatChange"
    /\ nFormatChanges = 2
    /\ format = "S24_32"
    /\ channels = 1
    /\ out.notified

C20_NoWrapAcrossFormats ==
    [][(DrainStep /\ queuedFrameCount >= 0)
       => /\ queuedFrameCount' >= 0
          /\ queuedFrameCount' <= queuedFrameCount]_vars

\* C18: when a write and a drain that ran against each other have both
\* completed, queuedFrameCount is its prior value plus the frames written
\* minus the frames copied, and the chunk queue holds exactly the unread
\* bytes.
C18_NoLostUpdate ==
    (inflight.wpc = "done" /\ inflight.dpc = "done")
    => /\ queuedFrameCount =
            inflight.priorFrames
              + inflight.wsize \div (bytesPerSample * channels)
              - inflight.totalWritten \div (bytesPerSample * channels)
       /\ TotalUnread(buffers, currentBufferOffset) =
            inflight.priorBytes + inflight.wsize - inflight.totalWritten

\* C21: when the frame size changed between a write and its drain, the drain
\* still copies the queued bytes by the lengths recorded at write time (each
\* byte once, in order) and takes bytes copied / bytesPerFrame, at the frame
\* size in effect at the drain, off queuedFrameCount.
C21_DrainUsesRecordedLength ==
    [][DrainStep =>
        LET N == out'.size
            k == Min(N, TotalUnread(buffers, currentBufferOffset))
            stride == bytesPerSample * channels
        IN /\ out'.copied = k
           /\ \A i \in 1..k :
                out'.dest[i] = NthUnread(buffers, currentBufferOffset, i)
           /\ TotalUnread(buffers', currentBufferOffset')
                = TotalUnread(buffers, currentBufferOffset) - k
           /\ queuedFrameCount' = UintSub(queuedFrameCount, k \div stride)]_vars

\* C22: chunks are read first in, first out, with a read offset that stays
\* within the front chunk: after a drain call either the queue is empty and
\* the offset 0, or the offset is strictly less than the length of the front
\* chunk; a drain call delivers the oldest unread bytes and leaves the rest
\* unread in the same order; no other operation moves the offset.
C22_FifoMonotoneOffset ==
    [][/\ DrainStep =>
            LET k == out'.copied
                rest == TotalUnread(buffers', currentBufferOffset')
            IN /\ \/ buffers' = <<>> /\ currentBufferOffset' = 0
                  \/ /\ buffers' # <<>>
                     /\ currentBufferOffset' < Head(buffers').size
               /\ \A i \in 1..k :
                    out'.dest[i] = NthUnread(buffers, currentBufferOffset, i)
               /\ rest = TotalUnread(buffers, currentBufferOffset) - k
               /\ \A i \in 1..Min(rest, 2 * getBytesPerFrame) :
                    NthUnread(buffers', currentBufferOffset', i)
                      = NthUnread(buffers, currentBufferOffset, k + i)
               /\ (buffers' = buffers
                     => currentBufferOffset' >= currentBufferOffset)
       /\ ~DrainStep => UNCHANGED currentBufferOffset]_vars

\* C23: a drain call that fires a signal finds its channel not yet released:
\* each pending waiter is signalled by at most one drain call, and no drain
\* call signals on, or releases, a channel an earlier one released.
C23_SignalledOnce ==
    [][DrainStep =>
        /\ out'.firedReady => tsfns[readySignal].state = "open"
        /\ out'.firedFinished => tsfns[finishedSignal].state = "open"]_vars

\* C24: whenever the stream is connected (the connect has been issued and
\* the stream not released) the bytes per frame are strictly positive.
C24_FrameSizePositive ==
    stream \in {"negotiating", "active"} => bytesPerSample * channels > 0

\* C25: a real-time invocation that dequeued a buffer queues it back exactly
\* once, after fillBuffer, with a chunk size equal to the byte count passed
\* to fillBuffer: a whole number of frames, at most the capacity; one that
\* got no buffer changes neither the queue nor the waiters.
C25_BufferCommittedOnce ==
    [][nDrains' = nDrains + 1 =>
        /\ out'.acquired =>
             /\ out'.committed = 1
             /\ out'.chunkSize = out'.size
             /\ Len(out'.dest) = out'.size
             /\ out'.size % (bytesPerSample * channels) = 0
             /\ out'.size <= out'.maxsize
        /\ ~out'.acquired => UNCHANGED <<queue, waiters>>]_vars

\* C26: when the event loop resolves a waitForDrained waiter the producer has
\* no backlog: queuedFrameCount is 0 and no chunk is queued.
C26_DrainedMeansNoBacklog ==
    [][(/\ finishedDeferral # NULL
        /\ finishedDeferral' = NULL
        /\ promises'[finishedDeferral].state = "resolved")
       => (queuedFrameCount = 0 /\ buffers = <<>>)]_vars

\* C27: a waiter is settled at most once, and the delivery of a queued
\* resolution never dereferences a waiter that has been cleared.
C27_WaiterSettledOnce ==
    [][/\ \A p \in DOMAIN promises :
            promises[p].state # "pending" => promises'[p] = promises[p]
       /\ (crashed' /\ ~crashed) => out'.op # "deliver"]_vars

\* C28: a pending space waiter can always still be woken by a later drain
\* call: as long as it is pending, the thread-safe function that carries its
\* signal has not been finalised.  (The finite-run form of "a pending space
\* waiter is eventually resolved while drain calls keep occurring".)
C28_PendingWaiterWakeable ==
    readyDeferral # NULL => tsfns[readySignal].state # "closed"

\* C29: the chunk queue is empty exactly when queuedFrameCount is 0, format
\* changes included (frame-aligned, non-empty writes).
C29_EmptyIffZeroFrames ==
    (buffers = <<>>) <=> (queuedFrameCount = 0)

\* C30: a delivered format-change notification carries the geometry applied
\* by the event that queued it, and every geometry-changing event queues
\* exactly one notification.
C30_NotificationCarriesItsGeometry ==
    [][/\ out'.op = "formatChange" => out'.param = Head(formatChangeCallback)
       /\ (out'.op = "onFormatChange" /\ out'.notified)
            => Len(formatChangeCallback') = Len(formatChangeCallback) + 1]_vars

====
